---- MODULE Spec2Model ----
(***************************************************************************)
(* Model of the tool-calling agent of ai_agent_prototype:                  *)
(*   src/agent/agent.py    Agent.__init__, invoke, _call_tools,            *)
(*                         _get_completion                                 *)
(*   src/memory/memory.py  Memory.add_message, messages, last_message      *)
(*   src/tools/tool.py     Tool.__call__                                   *)
(* The language-model backend and the tool functions are the environment:  *)
(* their answers are drawn nondeterministically from small sets.           *)
(***************************************************************************)
EXTENDS Integers, Sequences, FiniteSets, TLC

(***************************************************************************)
(* Bounds of the exploration.                                              *)
(***************************************************************************)
\* largest number of tool calls in one model response
MaxBatch == 2
\* number of choices of the environment, over one run, that leave the
\* plain path of one valid call to a registered tool per response (a
\* response with content next to its tool calls, a batch of several calls,
\* an unknown tool name, arguments that are not a JSON object, a tool that
\* raises, an agent built without tools); choices that end the invoke are
\* not counted
MaxDeviations == 2

(***************************************************************************)
(* Program constants.                                                      *)
(***************************************************************************)
\* default of the parameter max_depth of Agent._call_tools
max_depth == 5

\* Python's None
None == "<None>"

(***************************************************************************)
(* Values of the environment.                                              *)
(***************************************************************************)
UserMessages == {"What is 2 to the power of 8?"}

\* content of a model response: a string or None
ResponseContents == {None, "2 to the power of 8 is 256."}

\* names a model may put in a tool call; only "power" is ever registered
FunctionNames == {"power", "sqrt"}

\* serialized arguments a model may put in a tool call
ValidArguments == "{\"base\": 2, \"exponent\": 8}"
ArgumentStrings == {ValidArguments, "[2, 8]", "{\"base\": 2,"}

\* ids of the calls of a batch, by position
CallIds == <<"call_1", "call_2", "call_3", "call_4">>

\* errors the backend request may raise: the first is a subclass of
\* OpenAIError, the second is not (response.choices[0] on an empty list)
ClientErrors == {"APIConnectionError", "IndexError"}

\* tool lists an agent may be built with
ToolLists == {<< >>, <<"power">>}

(***************************************************************************)
(* src/memory/memory.py                                                    *)
(***************************************************************************)
Roles == {"user", "system", "assistant", "tool"}

\* tool_calls values: None, a list of calls, or a mapping
NoToolCalls == [kind |-> "none", calls |-> << >>]
ListOfCalls(cs) == [kind |-> "list", calls |-> cs]

\* str() of a value that is already a str
Str(s) == s

\* a variant of NewMessage that tags every tool message with the id of the
\* first call of a batch
NewMessage_FirstId(role, content, tool_calls, tool_call_id) ==
    [role |-> role,
     content |-> content,
     tool_call_id |-> IF role = "tool" THEN "call_1" ELSE None,
     tool_calls |-> tool_calls]

\* a variant of NewMessage that stores the tool_call_id it was given
NewMessage_KeepId(role, content, tool_calls, tool_call_id) ==
    [role |-> role,
     content |-> content,
     tool_call_id |-> Str(tool_call_id),
     tool_calls |-> tool_calls]

\* the message built by Memory.add_message; a key the code does not set is
\* None here
NewMessage(role, content, tool_calls, tool_call_id) ==
    [role |-> role,
     content |-> content,
     tool_call_id |-> IF role = "tool" THEN Str(tool_call_id) ELSE None,
     tool_calls |-> tool_calls]

\* a variant of add_message without the test of tool_call_id
AddMessageRaises_NoToolCheck(role, tool_call_id) == role \notin Roles

\* a variant of add_message without the test of the role
AddMessageRaises_NoRoleCheck(role, tool_call_id) ==
    role = "tool" /\ tool_call_id = None

\* whether Memory.add_message raises ValueError
AddMessageRaises(role, tool_call_id) ==
    \/ role \notin Roles
    \/ role = "tool" /\ tool_call_id = None

\* a variant of add_message that inserts the message at the front
add_message_Front(log, role, content, tool_calls, tool_call_id) ==
    IF AddMessageRaises(role, tool_call_id)
    THEN log
    ELSE <<NewMessage(role, content, tool_calls, tool_call_id)>> \o log

\* the log after Memory.add_message
add_message(log, role, content, tool_calls, tool_call_id) ==
    IF AddMessageRaises(role, tool_call_id)
    THEN log
    ELSE Append(log, NewMessage(role, content, tool_calls, tool_call_id))

\* Memory.messages: a copy of the list
messages(log) == log

\* a variant of messages that returns the list of the store itself
MessagesCopy_SameList(log) ==
    [list |-> messages(log), same_list |-> TRUE, same_dicts |-> TRUE]

\* what the caller of Memory.messages holds: self._messages.copy() is a new
\* list with the same elements, the dicts of the store
MessagesCopy(log) ==
    [list |-> messages(log), same_list |-> FALSE, same_dicts |-> TRUE]

\* a variant of last_message that returns the first message
last_message_First(log) == IF Len(log) > 0 THEN log[1] ELSE None

\* Memory.last_message
last_message(log) == IF Len(log) > 0 THEN log[Len(log)] ELSE None

\* what the caller of Memory.last_message holds: self._messages[-1] is the
\* dict of the store, not a copy of it
LastMessageResult(log) ==
    [message |-> last_message(log), same_dict |-> Len(log) > 0]

\* Memory.reset
reset(log) == << >>

(***************************************************************************)
(* src/tools/tool.py and the tool functions                                *)
(***************************************************************************)
\* json.loads of the serialized arguments: raises on malformed text,
\* otherwise yields a dict or a list
json_loads(s) ==
    CASE s = ValidArguments -> [raises |-> FALSE, type |-> "dict"]
      [] s = "[2, 8]" -> [raises |-> FALSE, type |-> "list"]
      [] OTHER -> [raises |-> TRUE, type |-> "JSONDecodeError"]

\* the float 256.0, a value that is not a str
FloatResult == "<float 256.0>"

\* the values above that are not str
NonText == {None, FloatResult}

\* what a tool function may do when called with keyword arguments: return a
\* value or raise an Exception
FunctionOutcomes ==
    {[raises |-> FALSE, type |-> "float", value |-> FloatResult,
      text |-> "256.0"],
     [raises |-> TRUE, type |-> "OverflowError", value |-> None,
      text |-> "Result too large"]}

\* callable_tool(**args): unpacking a value that is not a mapping raises
\* TypeError before the function runs; otherwise Tool.__call__ runs the
\* wrapped function and hands on whatever it returns or raises
ToolCall(args, outcome) ==
    IF args.type # "dict"
    THEN [raises |-> TRUE, type |-> "TypeError", value |-> None,
          text |-> "argument after ** must be a mapping, not list"]
    ELSE outcome

\* a variant of the tool message that stores the value as the tool
\* returned it
ResultStr_Raw(v) == v.value

\* str(result) of a value a tool returned
ResultStr(v) == v.text

\* f"Erro ao executar a ferramenta: {e}"
ExecErrorText(e) ==
    CASE e.text = "Result too large" ->
            "Erro ao executar a ferramenta: Result too large"
      [] OTHER ->
            "Erro ao executar a ferramenta: argument after ** must be a mapping, not list"

\* f"Tool '{function_name}' not found."
NotFoundText(name) ==
    CASE name = "power" -> "Tool 'power' not found."
      [] OTHER -> "Tool 'sqrt' not found."

(***************************************************************************)
(* The model responses the backend may give.                               *)
(***************************************************************************)
ToolCallRequest(i, name, arguments) ==
    [id |-> CallIds[i], function |-> [name |-> name, arguments |-> arguments]]

\* the batches of n calls; the i-th call has the i-th id
BatchesOf(n) ==
    { [i \in 1..n |-> ToolCallRequest(i, f[i][1], f[i][2])] :
        f \in [1..n -> FunctionNames \X ArgumentStrings] }

Batches == UNION { BatchesOf(n) : n \in 1..MaxBatch }

RECURSIVE CallsCost(_)
CallsCost(cs) ==
    IF cs = << >> THEN 0
    ELSE (IF Head(cs).function.name # "power" THEN 1 ELSE 0)
         + (IF Head(cs).function.arguments = "[2, 8]" THEN 1 ELSE 0)
         + CallsCost(Tail(cs))

\* deviations a response spends: none when it ends the conversation
ResponseCost(r) ==
    IF r.tool_calls.calls = << >> THEN 0
    ELSE CallsCost(r.tool_calls.calls)
         + (IF Len(r.tool_calls.calls) > 1 THEN 1 ELSE 0)
         + (IF r.content # None THEN 1 ELSE 0)

\* ai_message: content is a string or None, tool_calls is None or a
\* non-empty list
Responses ==
    [content : ResponseContents,
     tool_calls : {NoToolCalls} \cup { ListOfCalls(b) : b \in Batches }]

\* the responses that spend at most k deviations
ResponsesWithin ==
    [k \in 0..MaxDeviations |->
        { r : r \in {x \in Responses : ResponseCost(x) <= k} }]

\* truth value of tool_calls in "if tool_calls:"
Truthy(tc) == tc.kind # "none" /\ Len(tc.calls) > 0

\* isinstance(tool_calls, dict)
IsDict(tc) == tc.kind = "dict"

\* a variant of Projected that forwards tool_calls whatever it is
Projected_KeepAll(m) ==
    [role |-> m.role,
     content |-> m.content,
     tool_call_id |-> m.tool_call_id,
     tool_calls |-> m.tool_calls]

\* one entry of messages_for_openai: the keys whose value is not None, and
\* tool_calls only when it is a dict
Projected(m) ==
    [role |-> m.role,
     content |-> m.content,
     tool_call_id |-> m.tool_call_id,
     tool_calls |-> IF IsDict(m.tool_calls) THEN m.tool_calls ELSE NoToolCalls]

messages_for_openai(log) == [i \in 1..Len(messages(log)) |-> Projected(log[i])]

\* a variant of ProjectionDict in which msg is the stored dict itself
ProjectionDict_Alias(m) == [shared |-> TRUE, dict |-> Projected(m)]

\* msg = {k: v for k, v in m.items() if v is not None} followed by
\* del msg["tool_calls"]: msg is a new dict, so the deletion does not reach
\* the dict m that the store holds
ProjectionDict(m) == [shared |-> FALSE, dict |-> Projected(m)]

\* the log after the loop that builds messages_for_openai has run: a stored
\* dict changes only where the loop worked on the stored dict itself
StoreAfterProjection(log) ==
    [i \in 1..Len(log) |->
        IF ProjectionDict(log[i]).shared THEN ProjectionDict(log[i]).dict
        ELSE log[i]]

\* a variant of Kwargs that passes the tools argument always
Kwargs_AlwaysTools(log, tools) ==
    [messages |-> messages_for_openai(log),
     tools |-> tools,
     has_tools |-> TRUE]

\* the arguments of _get_completion: tools only when openai_tools is truthy
Kwargs(log, tools) ==
    [messages |-> messages_for_openai(log),
     tools |-> tools,
     has_tools |-> Len(tools) > 0]

\* the except clause of _get_completion
IsOpenAIError(e) == e \in {"OpenAIError", "APIConnectionError"}

ModelCallError(e) ==
    [type |-> "RuntimeError", text |-> "Erro ao chamar o modelo", cause |-> e]

RecursionLimitError ==
    [type |-> "RuntimeError",
     text |-> "Limite de recursão de ferramentas atingido.", cause |-> None]

\* the error that leaves _get_completion when the client raises e
CompletionError(e) ==
    IF IsOpenAIError(e) THEN ModelCallError(e)
    ELSE [type |-> e, text |-> "", cause |-> None]

\* a variant of DepthExceeded with the limit one cycle late
DepthExceeded_OneLate(depth) == depth > max_depth + 1

\* variants of DepthExceeded: a limit reached one cycle early, and no limit
DepthExceeded_OffByOne(depth) == depth >= max_depth
DepthExceeded_Never(depth) == FALSE

\* the depth test at the head of _call_tools
DepthExceeded(depth) == depth > max_depth

\* a variant of AssistantContent that stores the content as it comes
AssistantContent_Raw(c) == c

\* content=str(ai_message.content) if ai_message.content is not None else ""
AssistantContent(c) == IF c # None THEN Str(c) ELSE ""

\* "except Exception as e" around callable_tool(**args): every exception
\* class a tool call raises here derives from Exception
ExceptionClasses == {"OverflowError", "TypeError", "ValueError"}

\* a variant of the except clause that catches TypeError only
Caught_OnlyTypeError(type) == type = "TypeError"
CaughtByExceptException(type) == type \in ExceptionClasses

\* a variant of the for loop that leaves the last call of the batch out
LoopDone_BeforeLast(i, calls) == i >= Len(calls)

\* a variant of LoopDone that leaves the loop after the first call
LoopDone_AfterFirst(i, calls) == i > 1

\* the for loop over tool_calls has no call left at position i
LoopDone(i, calls) == i > Len(calls)

\* tc = tool_calls if isinstance(tool_calls, dict) else None
DictOrNone(tc) == IF IsDict(tc) THEN tc ELSE NoToolCalls

\* tool_calls=tool_calls in invoke: the raw field of the response
RawToolCalls(tc) == tc

\* Tool.to_openai_spec of the tool built from the function called name
to_openai_spec(name) == [type |-> "function", function |-> [name |-> name]]

\* self.tool_map = {t.name: t for t in self.tools}: for every name the
\* position of the last tool of the list that has it
ToolMap(ts) ==
    [n \in {ts[i] : i \in 1..Len(ts)} |->
        CHOOSE i \in 1..Len(ts) :
            ts[i] = n /\ \A j \in 1..Len(ts) : ts[j] = n => j <= i]

\* self.openai_tools: the list of specs, None (here the empty list) when
\* there is no tool
OpenaiTools(ts) == [i \in 1..Len(ts) |-> to_openai_spec(ts[i])]

\* self.tool_map.get(function_name) found a tool
Registered(map, name) == name \in DOMAIN map

\* a variant of the lookup that enters a name it does not find
MapAfterGet_SetDefault(map, name) ==
    IF name \in DOMAIN map THEN map ELSE (name :> 0) @@ map

\* tool_map after self.tool_map.get(function_name): dict.get enters nothing
MapAfterGet(map, name) == map

(***************************************************************************)
(* State.                                                                  *)
(***************************************************************************)
VARIABLES
    memory,           \* Agent.memory._messages
    tool_map,         \* Agent.tool_map
    openai_tools,     \* Agent.openai_tools
    pc,               \* position of the running invoke, "idle" when none
    tool_calls,       \* _call_tools: the batch being resolved
    idx,              \* _call_tools: position of the for loop in the batch
    recursion_depth,  \* _call_tools: the parameter recursion_depth
    outcome,          \* how the last invoke ended: value returned or error
    invokes,          \* number of invoke calls started
    deviations,       \* environment choices off the plain path so far
    requests,         \* backend requests issued by the current invoke
    request,          \* arguments of the last backend request
    response,         \* last model response of the current invoke
    backend_failed,   \* a backend request of the current invoke failed
    tool_runs,        \* tool functions called by the current invoke
    last_call,        \* the last call handled by the loop and how it went
    cycles,           \* batches whose loop finished in the current invoke
    batch_start,      \* length of the log when the loop of the batch began
    all_calls,        \* every response of the current invoke had tool calls
    batch_sizes,      \* sizes of the batches the current invoke entered
    mem_op,           \* last operation a caller made on a Memory
    mem_ret,          \* what that operation returned
    added,            \* arguments of the accepted add_message calls since
                      \* the Memory was created or reset
    func,             \* the object a Tool is built from
    tool,             \* the Tool, once Tool(func) returned or raised
    tool_ret,         \* what the last operation on the Tool returned
    enhanced,         \* an EnhancedAgent and the invoke it is running
    chat,             \* an AgentWithMemory or AgentAI and its invoke
    v2                \* a memory_v2.Memory used next to a memory.Memory

agentVars == <<memory, tool_map, openai_tools>>
frameVars == <<pc, tool_calls, idx, recursion_depth, outcome>>
boundVars == <<invokes, deviations>>
historyVars == <<requests, request, response, backend_failed, tool_runs,
                 last_call, cycles, batch_start, all_calls>>
callerVars == <<mem_op, mem_ret, added>>
toolVars == <<func, tool, tool_ret>>
sideVars == <<chat, v2>>
vars == <<agentVars, frameVars, boundVars, historyVars, batch_sizes,
          callerVars, toolVars, enhanced, sideVars>>

\* the backend is asked at most this many times by one invoke; the code
\* stays below it by itself (first conjunct of C2_InvokeTerminates)
MaxRequests == max_depth + 3

NoOutcome == [kind |-> "none", value |-> None,
              error |-> [type |-> None, text |-> "", cause |-> None]]
Returned(v) == [kind |-> "returned", value |-> v,
                error |-> [type |-> None, text |-> "", cause |-> None]]
Raised(e) == [kind |-> "raised", value |-> None, error |-> e]

NoRequest == [messages |-> << >>, tools |-> << >>, has_tools |-> FALSE]
NoResponse == [content |-> None, tool_calls |-> NoToolCalls]
NoCall == [kind |-> "none", id |-> None, name |-> None]

\* no EnhancedAgent was built
NoEnhanced ==
    [pc |-> "none", reflection |-> FALSE, max_iter |-> 1,
     auto_reflection |-> FALSE, max_reflections |-> 0, i |-> 0,
     model_calls |-> 0, response |-> None, messages |-> << >>,
     outcome |-> "none"]

\* no AgentWithMemory or AgentAI was built
NoChat ==
    [agent |-> "none", pc |-> "none", messages |-> << >>, entry |-> << >>,
     request |-> << >>, model_calls |-> 0, invokes |-> 0,
     outcome |-> [kind |-> "none", value |-> None]]

\* no memory_v2.Memory was built
NoV2 == [messages |-> << >>, raised |-> FALSE]

\* no Tool is being built
NoFunc == [callable |-> FALSE, name |-> None, doc |-> << >>, params |-> << >>]
NoTool == [state |-> "none", error |-> None, name |-> None,
           description |-> None, parameters |-> << >>,
           required_params |-> << >>]
NoToolReturn == [kind |-> "nothing", raises |-> FALSE, type |-> None,
                 value |-> None, properties |-> << >>, required |-> << >>]

\* no caller has used the Memory yet
NoOp == [name |-> "none", raised |-> FALSE, role |-> None, content |-> None,
         tool_calls |-> NoToolCalls, tool_call_id |-> None]
NoReturn == [kind |-> "nothing", list |-> << >>, same_list |-> FALSE,
             same_dicts |-> FALSE, message |-> None]

SystemContent ==
    "You're an AI Agent, your role is Personal Assistant, and you need to Help users with any question"

\* Agent.__init__
Init ==
    /\ memory = add_message(<< >>, "system", SystemContent, NoToolCalls, None)
    /\ \E ts \in ToolLists :
          /\ tool_map = ToolMap(ts)
          /\ openai_tools = OpenaiTools(ts)
          /\ deviations = IF ts = << >> THEN 1 ELSE 0
    /\ pc = "idle"
    /\ tool_calls = << >>
    /\ idx = 1
    /\ recursion_depth = 0
    /\ outcome = NoOutcome
    /\ invokes = 0
    /\ requests = 0
    /\ request = NoRequest
    /\ response = NoResponse
    /\ backend_failed = FALSE
    /\ tool_runs = 0
    /\ last_call = NoCall
    /\ cycles = 0
    /\ batch_start = 0
    /\ all_calls = TRUE
    /\ batch_sizes = << >>
    /\ mem_op = NoOp
    /\ mem_ret = NoReturn
    /\ added = << >>
    /\ func = NoFunc
    /\ tool = NoTool
    /\ tool_ret = NoToolReturn
    /\ enhanced = NoEnhanced
    /\ chat = NoChat
    /\ v2 = NoV2

\* Agent.invoke up to the call of _get_completion: the user message is
\* appended and the records of the last invoke are cleared
InvokeEnter(user_message) ==
    /\ pc = "idle"
    /\ memory' = add_message(memory, "user", user_message, NoToolCalls, None)
    /\ pc' = "invoke_completion"
    /\ tool_calls' = << >>
    /\ idx' = 1
    /\ outcome' = NoOutcome
    /\ invokes' = invokes + 1
    /\ requests' = 0
    /\ request' = NoRequest
    /\ response' = NoResponse
    /\ backend_failed' = FALSE
    /\ tool_runs' = 0
    /\ last_call' = NoCall
    /\ cycles' = 0
    /\ batch_start' = 0
    /\ all_calls' = TRUE
    /\ batch_sizes' = << >>
    /\ UNCHANGED <<tool_map, openai_tools, recursion_depth, deviations,
                   callerVars, toolVars, enhanced, sideVars>>

\* the first invoke of the agent as constructed
InvokeBegin(user_message) ==
    /\ invokes = 0
    /\ InvokeEnter(user_message)

\* a variant in which an error that leaves invoke takes the messages of the
\* invoke with it
MemoryAfterRaise_Rollback(log) == SubSeq(log, 1, 1)

\* the log once an error has left invoke: invoke and _call_tools have no
\* except or finally clause of their own, nothing is removed or appended
MemoryAfterRaise(log) == log

\* a variant of CompletionFails that asks the backend again after a failure
CompletionFails_Retry(e) ==
    /\ requests < MaxRequests
    /\ requests' = requests + 1
    /\ request' = Kwargs(memory, openai_tools)
    /\ backend_failed' = TRUE
    /\ UNCHANGED <<agentVars, frameVars, boundVars, response, tool_runs,
                   last_call, cycles, batch_start, all_calls, batch_sizes,
                   callerVars, toolVars, enhanced, sideVars>>

\* _get_completion when client.chat.completions.create raises e: the error
\* leaves invoke, nothing else happens
CompletionFails(e) ==
    /\ requests < MaxRequests
    /\ requests' = requests + 1
    /\ request' = Kwargs(memory, openai_tools)
    /\ backend_failed' = TRUE
    /\ memory' = MemoryAfterRaise(StoreAfterProjection(memory))
    /\ outcome' = Raised(CompletionError(e))
    /\ pc' = "idle"
    /\ UNCHANGED <<tool_map, openai_tools, tool_calls, idx, recursion_depth,
                   boundVars, response, tool_runs, last_call, cycles,
                   batch_start, all_calls, batch_sizes, callerVars, toolVars, enhanced, sideVars>>

\* the value Agent.invoke returns: the content of the last message
ReturnValue(log) ==
    IF Len(log) > 0 THEN Str(last_message(log).content) ELSE ""

\* _get_completion returns ai_message = r.  The caller appends the
\* assistant message with stored_calls as its tool_calls.  When r has tool
\* calls, _call_tools is called at the given depth: it raises when the
\* depth is exceeded and starts its loop over the calls otherwise.  When r
\* has none, every _call_tools frame returns and invoke returns the content
\* of the last message.
CompletionSucceeds(r, stored_calls, depth) ==
    /\ requests < MaxRequests
    /\ deviations' = deviations + ResponseCost(r)
    /\ requests' = requests + 1
    /\ request' = Kwargs(memory, openai_tools)
    /\ response' = r
    /\ all_calls' = (all_calls /\ Truthy(r.tool_calls))
    /\ LET appended == add_message(StoreAfterProjection(memory), "assistant",
                           AssistantContent(r.content), stored_calls, None)
       IN  memory' = IF Truthy(r.tool_calls) /\ DepthExceeded(depth)
                     THEN MemoryAfterRaise(appended)
                     ELSE appended
    /\ IF Truthy(r.tool_calls)
       THEN /\ tool_calls' = r.tool_calls.calls
            /\ recursion_depth' = depth
            /\ IF DepthExceeded(depth)
               THEN /\ outcome' = Raised(RecursionLimitError)
                    /\ pc' = "idle"
                    /\ UNCHANGED <<idx, batch_start, batch_sizes>>
               ELSE /\ pc' = "call_tools_loop"
                    /\ idx' = 1
                    /\ batch_start' = Len(memory')
                    /\ batch_sizes' = Append(batch_sizes,
                                             Len(r.tool_calls.calls))
                    /\ UNCHANGED outcome
       ELSE /\ outcome' = Returned(ReturnValue(memory'))
            /\ pc' = "idle"
            /\ UNCHANGED <<tool_calls, recursion_depth, idx, batch_start,
                           batch_sizes>>
    /\ UNCHANGED <<tool_map, openai_tools, invokes, backend_failed,
                   tool_runs, last_call, cycles, callerVars, toolVars, enhanced, sideVars>>

\* a variant in which invoke hands on the depth the last frame of the
\* agent had reached
EntryDepth_Carried(last_depth) == last_depth

\* self._call_tools(tool_calls) in invoke: recursion_depth takes its
\* default, whatever depth the frames of earlier invokes had reached
EntryDepth(last_depth) == 0

\* Agent.invoke: the first model call and what follows it
InvokeCompletion ==
    /\ pc = "invoke_completion"
    /\ \/ \E e \in ClientErrors : CompletionFails(e)
       \/ \E r \in ResponsesWithin[MaxDeviations - deviations] :
             CompletionSucceeds(r, RawToolCalls(r.tool_calls),
                                EntryDepth(recursion_depth))

\* the loop moves on to the next call of the batch
LoopAdvance ==
    /\ idx' = idx + 1
    /\ IF LoopDone(idx + 1, tool_calls)
       THEN pc' = "call_tools_completion" /\ cycles' = cycles + 1
       ELSE pc' = "call_tools_loop" /\ UNCHANGED cycles

\* Agent._call_tools: one iteration of the for loop
CallToolsStep ==
    /\ pc = "call_tools_loop"
    /\ ~LoopDone(idx, tool_calls)
    /\ LET t == tool_calls[idx]
           tool_call_id == t.id
           function_name == t.function.name
           args == json_loads(t.function.arguments)
       IN  IF args.raises
           THEN \* json.loads raised: nothing catches it
                /\ outcome' = Raised([type |-> args.type, text |-> "",
                                      cause |-> None])
                /\ pc' = "idle"
                /\ last_call' = [kind |-> "decode_error", id |-> tool_call_id,
                                 name |-> function_name]
                /\ memory' = MemoryAfterRaise(memory)
                /\ UNCHANGED <<idx, cycles, tool_runs, deviations>>
           ELSE IF ~Registered(tool_map, function_name)
           THEN /\ memory' = add_message(memory, "tool",
                                 NotFoundText(function_name), NoToolCalls,
                                 tool_call_id)
                /\ last_call' = [kind |-> "not_found", id |-> tool_call_id,
                                 name |-> function_name]
                /\ LoopAdvance
                /\ UNCHANGED <<outcome, tool_runs, deviations>>
           ELSE \E o \in FunctionOutcomes :
                LET result == ToolCall(args, o)
                    cost == IF o.raises /\ args.type = "dict" THEN 1 ELSE 0
                IN  /\ deviations + cost <= MaxDeviations
                    /\ deviations' = deviations + cost
                    /\ tool_runs' = tool_runs + 1
                    /\ IF result.raises
                          /\ ~CaughtByExceptException(result.type)
                       THEN /\ outcome' = Raised([type |-> result.type,
                                   text |-> result.text, cause |-> None])
                            /\ pc' = "idle"
                            /\ last_call' = [kind |-> "escaped",
                                   id |-> tool_call_id, name |-> function_name]
                            /\ memory' = MemoryAfterRaise(memory)
                            /\ UNCHANGED <<idx, cycles>>
                       ELSE /\ memory' = add_message(memory, "tool",
                                   IF result.raises THEN ExecErrorText(result)
                                   ELSE ResultStr(result),
                                   NoToolCalls, tool_call_id)
                            /\ last_call' = [kind |-> IF result.raises
                                   THEN "raised" ELSE "returned",
                                   id |-> tool_call_id, name |-> function_name]
                            /\ LoopAdvance
                            /\ UNCHANGED outcome
    /\ tool_map' =
          IF json_loads(tool_calls[idx].function.arguments).raises
          THEN tool_map
          ELSE MapAfterGet(tool_map, tool_calls[idx].function.name)
    /\ UNCHANGED <<openai_tools, tool_calls, recursion_depth,
                   invokes, requests, request, response, backend_failed,
                   batch_start, all_calls, batch_sizes, callerVars, toolVars, enhanced, sideVars>>

\* Agent._call_tools after the loop: the next model call and what follows
CallToolsCompletion ==
    /\ pc = "call_tools_completion"
    /\ \/ \E e \in ClientErrors : CompletionFails(e)
       \/ \E r \in ResponsesWithin[MaxDeviations - deviations] :
             CompletionSucceeds(r, DictOrNone(r.tool_calls),
                                recursion_depth + 1)

Next ==
    \/ \E u \in UserMessages : InvokeBegin(u)
    \/ InvokeCompletion
    \/ CallToolsStep
    \/ CallToolsCompletion

Spec == Init /\ [][Next]_vars

\* every step of a running invoke is eventually taken: each model call and
\* each tool call returns
Running == InvokeCompletion \/ CallToolsStep \/ CallToolsCompletion

FairSpec == Spec /\ WF_vars(Running)

TypeOK ==
    /\ pc \in {"idle", "invoke_completion", "call_tools_loop",
               "call_tools_completion"}
    /\ \A i \in 1..Len(memory) : memory[i].role \in Roles
    /\ deviations \in 0..MaxDeviations
    /\ invokes \in 0..1

(***************************************************************************)
(* A Memory used directly by a caller, as the demonstration at the end of  *)
(* src/memory/memory.py does.                                              *)
(***************************************************************************)
\* the store is followed up to this many messages
MaxLog == 3

CallerRoles == Roles \cup {"admin"}
CallerContents == {"Oi"}
DictToolCalls == [kind |-> "dict", calls |-> <<[name |-> "calculator"]>>]
CallerToolCalls == {NoToolCalls, DictToolCalls}
CallerIds == {None, "call_123"}
FakeMessage == NewMessage("user", "Mensagem falsa", NoToolCalls, None)
ListChanges == {"append", "pop", "replace"}

\* Memory.__init__; there is no agent at work
MemInit ==
    /\ memory = << >>
    /\ tool_map = ToolMap(<< >>)
    /\ openai_tools = OpenaiTools(<< >>)
    /\ deviations = 0
    /\ pc = "idle"
    /\ tool_calls = << >>
    /\ idx = 1
    /\ recursion_depth = 0
    /\ outcome = NoOutcome
    /\ invokes = 0
    /\ requests = 0
    /\ request = NoRequest
    /\ response = NoResponse
    /\ backend_failed = FALSE
    /\ tool_runs = 0
    /\ last_call = NoCall
    /\ cycles = 0
    /\ batch_start = 0
    /\ all_calls = TRUE
    /\ batch_sizes = << >>
    /\ mem_op = NoOp
    /\ mem_ret = NoReturn
    /\ added = << >>
    /\ func = NoFunc
    /\ tool = NoTool
    /\ tool_ret = NoToolReturn
    /\ enhanced = NoEnhanced
    /\ chat = NoChat
    /\ v2 = NoV2

NoAgentStep ==
    UNCHANGED <<tool_map, openai_tools, frameVars, boundVars, historyVars,
                batch_sizes, toolVars, enhanced, sideVars>>

\* memory.add_message(role, content, tool_calls, tool_call_id)
MemAddMessage(role, content, tcs, tool_call_id) ==
    /\ Len(add_message(memory, role, content, tcs, tool_call_id)) <= MaxLog
    /\ memory' = add_message(memory, role, content, tcs, tool_call_id)
    /\ mem_op' = [name |-> "add_message",
                  raised |-> AddMessageRaises(role, tool_call_id),
                  role |-> role, content |-> content, tool_calls |-> tcs,
                  tool_call_id |-> tool_call_id]
    /\ mem_ret' = NoReturn
    /\ added' = IF AddMessageRaises(role, tool_call_id) THEN added
                ELSE Append(added, [role |-> role, content |-> content,
                                    tool_calls |-> tcs])
    /\ NoAgentStep

\* memory.messages
MemMessages ==
    /\ mem_op' = [NoOp EXCEPT !.name = "messages"]
    /\ mem_ret' = [kind |-> "list", list |-> MessagesCopy(memory).list,
                   same_list |-> MessagesCopy(memory).same_list,
                   same_dicts |-> MessagesCopy(memory).same_dicts,
                   message |-> None]
    /\ UNCHANGED <<memory, added>>
    /\ NoAgentStep

\* memory.last_message()
MemLastMessage ==
    /\ mem_op' = [NoOp EXCEPT !.name = "last_message"]
    /\ mem_ret' = [kind |-> IF Len(memory) > 0 THEN "message" ELSE "None",
                   list |-> << >>, same_list |-> FALSE,
                   same_dicts |-> LastMessageResult(memory).same_dict,
                   message |-> LastMessageResult(memory).message]
    /\ UNCHANGED <<memory, added>>
    /\ NoAgentStep

\* memory.reset()
MemReset ==
    /\ memory' = reset(memory)
    /\ mem_op' = [NoOp EXCEPT !.name = "reset"]
    /\ mem_ret' = NoReturn
    /\ added' = << >>
    /\ NoAgentStep

\* the list after the caller changed it
Changed(list, change) ==
    CASE change = "append" -> Append(list, FakeMessage)
      [] change = "pop" -> SubSeq(list, 1, Len(list) - 1)
      [] change = "replace" -> [list EXCEPT ![1] = FakeMessage]

\* the caller changes the list it got from memory.messages: the store
\* changes with it only when that list is the list of the store
CallerChangesList(change) ==
    /\ mem_op.name = "messages"
    /\ change = "append" \/ Len(mem_ret.list) > 0
    /\ mem_ret' = [mem_ret EXCEPT !.list = Changed(mem_ret.list, change)]
    /\ memory' = IF mem_ret.same_list THEN Changed(mem_ret.list, change)
                 ELSE memory
    /\ mem_op' = [NoOp EXCEPT !.name = change]
    /\ UNCHANGED added
    /\ NoAgentStep

MemNext ==
    \/ \E role \in CallerRoles, content \in CallerContents,
          tcs \in CallerToolCalls, id \in CallerIds :
             MemAddMessage(role, content, tcs, id)
    \/ MemMessages
    \/ MemLastMessage
    \/ MemReset
    \/ \E change \in ListChanges : CallerChangesList(change)

SpecMemory == MemInit /\ [][MemNext]_vars

(***************************************************************************)
(* A caller that also writes into the message dicts it got from the        *)
(* Memory.                                                                 *)
(***************************************************************************)
\* at most this many stored messages are written into
MaxChanges == 1

ChangedContent == "Mensagem falsa"

Changes(log) == Cardinality({i \in 1..Len(log) : log[i].content = ChangedContent})

\* msg["content"] = ChangedContent on the i-th dict of the list messages
\* returned, or on the dict last_message returned: the store changes with
\* it when that dict is the dict of the store
CallerChangesMessage(i) ==
    /\ \/ mem_op.name = "messages" /\ i \in 1..Len(mem_ret.list)
       \/ mem_op.name = "last_message" /\ mem_ret.kind = "message"
                                       /\ i = Len(memory)
    /\ Changes(memory) < MaxChanges
    /\ mem_ret' = IF mem_op.name = "messages"
                  THEN [mem_ret EXCEPT !.list[i].content = ChangedContent]
                  ELSE [mem_ret EXCEPT !.message.content = ChangedContent]
    /\ memory' = IF mem_ret.same_dicts
                 THEN [memory EXCEPT ![i].content = ChangedContent]
                 ELSE memory
    /\ mem_op' = [NoOp EXCEPT !.name = "set_content"]
    /\ UNCHANGED added
    /\ NoAgentStep

SharedNext ==
    \/ \E role \in Roles, id \in CallerIds :
          MemAddMessage(role, "Oi", NoToolCalls, id)
    \/ MemMessages
    \/ MemLastMessage
    \/ MemReset
    \/ \E i \in 1..MaxLog : CallerChangesMessage(i)

SpecShared == MemInit /\ [][SharedNext]_vars

(***************************************************************************)
(* src/tools/tool.py: a Tool built from a Python object and used.          *)
(***************************************************************************)
\* the callables have up to this many parameters
MaxParams == 2

\* Parameter.empty
Empty == "<empty>"

\* annotations of a parameter: the four types the schema knows, another
\* type, or none
Annotations == {"str", "int", "float", "bool", "list", Empty}

ParamNames == <<"base", "exponent", "modulus">>

\* the i-th parameter of a signature: a named one with or without a
\* default, *args or **kwargs
ParamsAt(i) ==
    { [name |-> ParamNames[i], kind |-> "named", annotation |-> a,
       has_default |-> d] : a \in Annotations, d \in BOOLEAN }
    \cup
    { [name |-> ParamNames[i], kind |-> k, annotation |-> a,
       has_default |-> FALSE] :
         k \in {"VAR_POSITIONAL", "VAR_KEYWORD"}, a \in {"float", Empty} }

Signatures ==
    UNION { { sig \in [1..n -> UNION {ParamsAt(i) : i \in 1..n}] :
                \A i \in 1..n : sig[i] \in ParamsAt(i) } : n \in 0..MaxParams }

\* lines a docstring is made of
PlainLine == "Calculate the power of a base number raised to an exponent."
IndentedLine == "    Calculate the power of a base number raised to an exponent."
ReturnsLine == "    Returns a float."
BlankLines == {"", "    "}

\* __doc__ is None: no line at all (a string has one line at least)
NoDoc == << >>

\* __doc__ of a callable: None, or a string given as its lines
Docs ==
    {NoDoc,
     <<"">>,
     <<"    ">>,
     <<PlainLine>>,
     <<"", IndentedLine, "    ", ReturnsLine, "    ">>}

\* the objects a Tool may be built from
Callables ==
    {[callable |-> FALSE, name |-> None, doc |-> NoDoc, params |-> << >>]}
    \cup
    { [callable |-> TRUE, name |-> "power", doc |-> d, params |-> sig] :
         d \in Docs, sig \in Signatures }

\* "not func.__doc__": None and the empty string are falsy
DocMissing(doc) == doc = NoDoc \/ doc = <<"">>

\* str.lstrip and str.rstrip of one line
LStripLine(l) ==
    CASE l = IndentedLine -> PlainLine
      [] l = ReturnsLine -> "Returns a float."
      [] l \in BlankLines -> ""
      [] OTHER -> l
RStripLine(l) == IF l \in BlankLines THEN "" ELSE l

RECURSIVE DropLeadingBlank(_)
DropLeadingBlank(ls) ==
    IF ls = << >> THEN << >>
    ELSE IF Head(ls) \in BlankLines THEN DropLeadingBlank(Tail(ls)) ELSE ls

RECURSIVE DropTrailingBlank(_)
DropTrailingBlank(ls) ==
    IF ls = << >> THEN << >>
    ELSE IF ls[Len(ls)] \in BlankLines
         THEN DropTrailingBlank(SubSeq(ls, 1, Len(ls) - 1)) ELSE ls

\* doc.strip(): white space, line ends included, is removed at both ends
Strip(doc) ==
    LET kept == DropTrailingBlank(DropLeadingBlank(doc))
    IN  IF kept = << >> THEN <<"">>
        ELSE [i \in 1..Len(kept) |->
                 IF i = 1 /\ i = Len(kept) THEN RStripLine(LStripLine(kept[i]))
                 ELSE IF i = 1 THEN LStripLine(kept[i])
                 ELSE IF i = Len(kept) THEN RStripLine(kept[i])
                 ELSE kept[i]]

\* func.__doc__.strip().split("\n")[0]
Description(doc) == Strip(doc)[1]

\* a variant of the loop that skips no parameter
Skipped_None(param) == FALSE

\* the loop over the signature leaves *args and **kwargs out
Skipped(param) == param.kind \in {"VAR_POSITIONAL", "VAR_KEYWORD"}

\* the loop over sig.parameters from its i-th parameter on, with the
\* parameters and required_params collected so far: it raises at the first
\* parameter it does not skip that has no annotation
RECURSIVE ParamLoop(_, _, _, _)
ParamLoop(params, i, parameters, required_params) ==
    IF i > Len(params)
    THEN [raises |-> FALSE, parameters |-> parameters,
          required_params |-> required_params]
    ELSE IF Skipped(params[i])
    THEN ParamLoop(params, i + 1, parameters, required_params)
    ELSE IF params[i].annotation = Empty
    THEN [raises |-> TRUE, parameters |-> parameters,
          required_params |-> required_params]
    ELSE ParamLoop(params, i + 1,
             Append(parameters, [name |-> params[i].name,
                                 type |-> params[i].annotation,
                                 description |-> ""]),
             IF params[i].has_default THEN required_params
             ELSE Append(required_params, params[i].name))

\* Tool.__init__
ToolInit(f) ==
    IF ~f.callable
    THEN [NoTool EXCEPT !.state = "raised", !.error = "TypeError"]
    ELSE IF DocMissing(f.doc)
    THEN [NoTool EXCEPT !.state = "raised", !.error = "ValueError: docstring"]
    ELSE LET loop == ParamLoop(f.params, 1, << >>, << >>)
         IN  IF loop.raises
             THEN [NoTool EXCEPT !.state = "raised",
                                 !.error = "ValueError: type hint"]
             ELSE [state |-> "built", error |-> None, name |-> f.name,
                   description |-> Description(f.doc),
                   parameters |-> loop.parameters,
                   required_params |-> loop.required_params]

\* a variant of the mapping that tests int before bool, as isinstance would
map_type_to_json_schema_BoolAsInt(py_type) ==
    CASE py_type = "str" -> "string"
      [] py_type \in {"int", "bool"} -> "integer"
      [] py_type = "float" -> "number"
      [] OTHER -> "string"

\* Tool._map_type_to_json_schema
map_type_to_json_schema(py_type) ==
    CASE py_type = "str" -> "string"
      [] py_type = "int" -> "integer"
      [] py_type = "float" -> "number"
      [] py_type = "bool" -> "boolean"
      [] OTHER -> "string"

\* Tool.to_dict: the properties in the order they were inserted, and the
\* required list
to_dict(t) ==
    [kind |-> "to_dict", raises |-> FALSE, type |-> None, value |-> None,
     properties |-> [i \in 1..Len(t.parameters) |->
         [name |-> t.parameters[i].name,
          type |-> map_type_to_json_schema(t.parameters[i].type),
          description |-> t.parameters[i].description]],
     required |-> t.required_params]

\* Tool.__call__ with keyword arguments: what the wrapped function returns
\* or raises
ToolCallResult(o) ==
    LET result == ToolCall([raises |-> FALSE, type |-> "dict"], o)
    IN  [kind |-> "call", raises |-> result.raises, type |-> result.type,
         value |-> result.value, properties |-> << >>, required |-> << >>]

\* there is no agent and no Memory in use
NoAgent ==
    /\ memory = << >>
    /\ tool_map = ToolMap(<< >>)
    /\ openai_tools = OpenaiTools(<< >>)
    /\ deviations = 0
    /\ pc = "idle"
    /\ tool_calls = << >>
    /\ idx = 1
    /\ recursion_depth = 0
    /\ outcome = NoOutcome
    /\ invokes = 0
    /\ requests = 0
    /\ request = NoRequest
    /\ response = NoResponse
    /\ backend_failed = FALSE
    /\ tool_runs = 0
    /\ last_call = NoCall
    /\ cycles = 0
    /\ batch_start = 0
    /\ all_calls = TRUE
    /\ batch_sizes = << >>
    /\ mem_op = NoOp
    /\ mem_ret = NoReturn
    /\ added = << >>

\* an object to build a Tool from is at hand
ToolSpecInit ==
    /\ NoAgent
    /\ func \in Callables
    /\ tool = NoTool
    /\ tool_ret = NoToolReturn
    /\ enhanced = NoEnhanced
    /\ chat = NoChat
    /\ v2 = NoV2

NoAgentNoMemoryStep ==
    UNCHANGED <<agentVars, frameVars, boundVars, historyVars, batch_sizes,
                callerVars, enhanced, sideVars>>

\* tool = Tool(func)
ToolConstruct ==
    /\ tool.state = "none"
    /\ tool' = ToolInit(func)
    /\ UNCHANGED <<func, tool_ret>>
    /\ NoAgentNoMemoryStep

\* tool.to_dict()
ToolToDict ==
    /\ tool.state = "built"
    /\ tool_ret' = to_dict(tool)
    /\ UNCHANGED <<func, tool>>
    /\ NoAgentNoMemoryStep

\* tool(**kwargs)
ToolInvoke(o) ==
    /\ tool.state = "built"
    /\ tool_ret' = ToolCallResult(o)
    /\ UNCHANGED <<func, tool>>
    /\ NoAgentNoMemoryStep

ToolNext ==
    \/ ToolConstruct
    \/ ToolToDict
    \/ \E o \in FunctionOutcomes : ToolInvoke(o)

SpecTool == ToolSpecInit /\ [][ToolNext]_vars

(***************************************************************************)
(* src/agent/agent_enhanced.py: EnhancedAgent, its Agent and its Memory.   *)
(***************************************************************************)
\* the numbers of reflections asked for go up to this
MaxReflections == 4

\* values of max_iter and of the argument max_reflections
ReflectionCounts == -1..MaxReflections

\* the argument max_reflections of invoke: None when left out, or a number
MaxReflectionsArguments ==
    {[given |-> FALSE, value |-> 0]}
    \cup { [given |-> TRUE, value |-> n] : n \in ReflectionCounts }

\* response.choices[0].message.content or ""
ContentOrEmpty(c) == IF c = None \/ c = "" THEN "" ELSE c

\* Memory.add_message of agent_enhanced.py: no test, the dict is appended
enhanced_add_message(log, role, content) ==
    Append(log, [role |-> role, content |-> content])

\* a variant of the loop that runs once more
RangeHasNext_Inclusive(count, n) == count <= n

\* i in range(n) has a next value once count values were taken
RangeHasNext(count, n) == count < n

\* EnhancedAgent.__init__
EnhancedInit ==
    /\ NoAgent
    /\ func = NoFunc
    /\ tool = NoTool
    /\ tool_ret = NoToolReturn
    /\ chat = NoChat
    /\ v2 = NoV2
    /\ \E r \in BOOLEAN, m \in ReflectionCounts :
          enhanced = [NoEnhanced EXCEPT !.pc = "idle", !.reflection = r,
                                        !.max_iter = m]

NoPlainAgentStep ==
    UNCHANGED <<agentVars, frameVars, boundVars, historyVars, batch_sizes,
                callerVars, toolVars, sideVars>>

\* EnhancedAgent.invoke up to the first model call: the arguments left out
\* take the values of the constructor, the user message is stored
EnhancedInvokeBegin(message, auto_reflection, max_reflections) ==
    /\ enhanced.pc = "idle"
    /\ enhanced' =
          [enhanced EXCEPT
              !.pc = "initial",
              !.auto_reflection = IF auto_reflection = None
                                  THEN enhanced.reflection
                                  ELSE auto_reflection = "True",
              !.max_reflections = IF ~max_reflections.given
                                  THEN enhanced.max_iter
                                  ELSE max_reflections.value,
              !.messages = enhanced_add_message(enhanced.messages, "user",
                                                message)]
    /\ NoPlainAgentStep

\* super().invoke raises what the client raises: the invoke ends there
EnhancedModelCallFails ==
    /\ enhanced.pc \in {"initial", "reflect"}
    /\ enhanced' = [enhanced EXCEPT !.pc = "done", !.outcome = "raised",
                        !.model_calls = enhanced.model_calls + 1]
    /\ NoPlainAgentStep

\* the loop test after count iterations: another iteration or the return
AfterResponse(e, count) ==
    IF e.auto_reflection /\ RangeHasNext(count, e.max_reflections)
    THEN [e EXCEPT !.pc = "reflect"]
    ELSE [e EXCEPT !.pc = "done", !.outcome = "returned"]

\* the initial response: super().invoke(message), stored as assistant
EnhancedInitialResponse(c) ==
    /\ enhanced.pc = "initial"
    /\ enhanced' = AfterResponse(
          [enhanced EXCEPT
              !.model_calls = enhanced.model_calls + 1,
              !.response = ContentOrEmpty(c),
              !.messages = enhanced_add_message(enhanced.messages,
                                "assistant", ContentOrEmpty(c))], 0)
    /\ NoPlainAgentStep

\* one iteration of the reflection loop: super().invoke(critique_prompt),
\* its result is the response and is stored as assistant
EnhancedReflection(c) ==
    /\ enhanced.pc = "reflect"
    /\ enhanced' = AfterResponse(
          [enhanced EXCEPT
              !.i = enhanced.i + 1,
              !.model_calls = enhanced.model_calls + 1,
              !.response = ContentOrEmpty(c),
              !.messages = enhanced_add_message(enhanced.messages,
                                "assistant", ContentOrEmpty(c))],
          enhanced.i + 1)
    /\ NoPlainAgentStep

EnhancedNext ==
    \/ \E u \in UserMessages, a \in {None, "True", "False"},
          m \in MaxReflectionsArguments : EnhancedInvokeBegin(u, a, m)
    \/ EnhancedModelCallFails
    \/ \E c \in ResponseContents : EnhancedInitialResponse(c)
    \/ \E c \in ResponseContents : EnhancedReflection(c)

SpecEnhanced == EnhancedInit /\ [][EnhancedNext]_vars

(***************************************************************************)
(* src/agent/agent.py: one Agent invoked several times, its caller          *)
(* resetting agent.memory in between.                                       *)
(***************************************************************************)
\* the agent is invoked up to this many times
MaxInvokes == 2

\* tool lists of the agent: one tool, or two tools of the same name
SessionToolLists == {<<"power">>, <<"power", "power">>}

\* the agent as constructed; the environment stays on the plain path: every
\* model response is a final text or one well-formed call of power, and the
\* tool returns
SessionInit ==
    /\ memory = add_message(<< >>, "system", SystemContent, NoToolCalls, None)
    /\ \E ts \in SessionToolLists :
          /\ tool_map = ToolMap(ts)
          /\ openai_tools = OpenaiTools(ts)
    /\ deviations = MaxDeviations
    /\ pc = "idle"
    /\ tool_calls = << >>
    /\ idx = 1
    /\ recursion_depth = 0
    /\ outcome = NoOutcome
    /\ invokes = 0
    /\ requests = 0
    /\ request = NoRequest
    /\ response = NoResponse
    /\ backend_failed = FALSE
    /\ tool_runs = 0
    /\ last_call = NoCall
    /\ cycles = 0
    /\ batch_start = 0
    /\ all_calls = TRUE
    /\ batch_sizes = << >>
    /\ mem_op = NoOp
    /\ mem_ret = NoReturn
    /\ added = << >>
    /\ func = NoFunc
    /\ tool = NoTool
    /\ tool_ret = NoToolReturn
    /\ enhanced = NoEnhanced
    /\ chat = NoChat
    /\ v2 = NoV2

\* agent.invoke(user_message), the first or a later one
SessionInvoke(user_message) ==
    /\ invokes < MaxInvokes
    /\ InvokeEnter(user_message)

\* agent.memory.reset() between two invokes
SessionReset ==
    /\ pc = "idle"
    /\ memory # reset(memory)
    /\ memory' = reset(memory)
    /\ mem_op' = [NoOp EXCEPT !.name = "reset"]
    /\ UNCHANGED <<tool_map, openai_tools, frameVars, boundVars, historyVars,
                   batch_sizes, mem_ret, added, toolVars, enhanced, sideVars>>

\* what the backend does in a session: its failures are connection errors
\* and its final answers have a text
SessionBackend ==
    /\ backend_failed => outcome.error = ModelCallError("APIConnectionError")
    /\ outcome.kind = "returned" => response.content # None

SessionNext ==
    \/ \E u \in UserMessages : SessionInvoke(u)
    \/ SessionReset
    \/ InvokeCompletion /\ SessionBackend'
    \/ CallToolsStep
    \/ CallToolsCompletion /\ SessionBackend'

SpecSession == SessionInit /\ [][SessionNext]_vars

(***************************************************************************)
(* src/agent/agent_with_memory.py (AgentWithMemory and its Memory) and      *)
(* src/agent/agent_ai.py (AgentAI over a memory.Memory).                    *)
(***************************************************************************)
\* the agent is invoked up to this many times
MaxChatInvokes == 3

ChatAgents == {"AgentWithMemory", "AgentAI"}

\* f"{self.role} {self.instructions}" with the defaults of AgentWithMemory
WithMemorySystemContent ==
    "You are a helpful assistant. help the users with any question"

\* Memory.add_message of agent_with_memory.py: the dict is appended
with_memory_add_message(log, role, content) ==
    Append(log, [role |-> role, content |-> content])

\* a variant of get_messages that hands out the newest message only
with_memory_get_messages_LastOnly(log) == SubSeq(log, Len(log), Len(log))

\* Memory.get_messages of agent_with_memory.py: the list of the store
with_memory_get_messages(log) == log

\* m["role"] in ("system", "user", "assistant")
IsChatRole(m) == m.role \in {"system", "user", "assistant"}

\* AgentAI.invoke: the list sent to the model, role and content of the
\* stored messages of the three roles
AgentAIMessages(log) ==
    LET kept == SelectSeq(messages(log), IsChatRole)
    IN  [i \in 1..Len(kept) |->
            [role |-> kept[i].role, content |-> kept[i].content]]

\* Memory.add_message(role=..., content=...) as AgentAI calls it
agent_ai_add_message(log, role, content) ==
    add_message(log, role, content, NoToolCalls, None)

\* the store after add_message(role, content) of the agent's Memory
ChatAdd(agent, log, role, content) ==
    IF agent = "AgentWithMemory"
    THEN with_memory_add_message(log, role, content)
    ELSE agent_ai_add_message(log, role, content)

\* the argument messages of client.chat.completions.create
ChatRequest(agent, log) ==
    IF agent = "AgentWithMemory"
    THEN with_memory_get_messages(log)
    ELSE AgentAIMessages(log)

\* response.choices[0].message.content or ""
ChatResult(c) == IF c = None \/ c = "" THEN "" ELSE c

\* AgentWithMemory.__init__ seeds the system message; an AgentAI starts
\* with a new Memory or with one its caller has seeded
ChatInit ==
    /\ NoAgent
    /\ func = NoFunc
    /\ tool = NoTool
    /\ tool_ret = NoToolReturn
    /\ enhanced = NoEnhanced
    /\ v2 = NoV2
    /\ \/ chat = [NoChat EXCEPT
                    !.agent = "AgentWithMemory", !.pc = "idle",
                    !.messages = with_memory_add_message(<< >>, "system",
                                     WithMemorySystemContent)]
       \/ chat = [NoChat EXCEPT !.agent = "AgentAI", !.pc = "idle"]
       \/ chat = [NoChat EXCEPT
                    !.agent = "AgentAI", !.pc = "idle",
                    !.messages = agent_ai_add_message(<< >>, "system",
                                     SystemContent)]

NoChatStep ==
    UNCHANGED <<agentVars, frameVars, boundVars, historyVars, batch_sizes,
                callerVars, toolVars, enhanced, v2>>

\* invoke up to the model call: the user message is stored
ChatInvokeBegin(message) ==
    /\ chat.pc = "idle"
    /\ chat.invokes < MaxChatInvokes
    /\ chat' = [chat EXCEPT
                  !.pc = "create",
                  !.entry = chat.messages,
                  !.messages = ChatAdd(chat.agent, chat.messages, "user",
                                       message),
                  !.request = << >>,
                  !.model_calls = 0,
                  !.invokes = @ + 1,
                  !.outcome = [kind |-> "none", value |-> None]]
    /\ NoChatStep

\* client.chat.completions.create (or response.choices[0]) raises e:
\* invoke has no handler, the error leaves it
ChatCreateRaises(e) ==
    /\ chat.pc = "create"
    /\ chat' = [chat EXCEPT
                  !.pc = "idle",
                  !.request = ChatRequest(chat.agent, chat.messages),
                  !.model_calls = @ + 1,
                  !.outcome = [kind |-> "raised", value |-> e]]
    /\ NoChatStep

\* the model answers with content c: the reply is stored and returned
ChatCreateReturns(c) ==
    /\ chat.pc = "create"
    /\ chat' = [chat EXCEPT
                  !.pc = "idle",
                  !.request = ChatRequest(chat.agent, chat.messages),
                  !.model_calls = @ + 1,
                  !.messages = ChatAdd(chat.agent, chat.messages,
                                       "assistant", ChatResult(c)),
                  !.outcome = [kind |-> "returned", value |-> ChatResult(c)]]
    /\ NoChatStep

ChatNext ==
    \/ \E u \in UserMessages : ChatInvokeBegin(u)
    \/ \E e \in ClientErrors : ChatCreateRaises(e)
    \/ \E c \in ResponseContents : ChatCreateReturns(c)

SpecChat == ChatInit /\ [][ChatNext]_vars

(***************************************************************************)
(* src/memory/memory_v2.py: its Memory, given the calls a memory.Memory is  *)
(* given.                                                                   *)
(***************************************************************************)
\* the message built by add_message of memory_v2.py: tool_calls is stored
\* in the else branch only, for a role other than "tool"
v2_NewMessage(role, content, tcs, tool_call_id) ==
    [role |-> role,
     content |-> content,
     tool_call_id |-> IF role = "tool" THEN Str(tool_call_id) ELSE None,
     tool_calls |-> IF role = "tool" THEN NoToolCalls ELSE tcs]

\* whether add_message of memory_v2.py raises ValueError: the role itself
\* is not tested
v2_AddMessageRaises(role, tool_call_id) ==
    role = "tool" /\ tool_call_id = None

\* the log after add_message of memory_v2.py
v2_add_message(log, role, content, tcs, tool_call_id) ==
    IF v2_AddMessageRaises(role, tool_call_id)
    THEN log
    ELSE Append(log, v2_NewMessage(role, content, tcs, tool_call_id))

\* Memory.get_messages of memory_v2.py: a copy of the list
v2_get_messages(log) == log

\* Memory.last_message of memory_v2.py
v2_last_message(log) == IF Len(log) > 0 THEN log[Len(log)] ELSE None

\* Memory.reset of memory_v2.py
v2_reset(log) == << >>

\* memory = memory.Memory() and v2 = memory_v2.Memory()
StoresInit == MemInit

NoStoresStep ==
    UNCHANGED <<tool_map, openai_tools, frameVars, boundVars, historyVars,
                batch_sizes, mem_ret, added, toolVars, enhanced, chat>>

\* add_message(role, content, tool_calls, tool_call_id) on both stores
StoresAddMessage(role, content, tcs, tool_call_id) ==
    /\ Len(add_message(memory, role, content, tcs, tool_call_id)) <= MaxLog
    /\ Len(v2_add_message(v2.messages, role, content, tcs, tool_call_id))
          <= MaxLog
    /\ memory' = add_message(memory, role, content, tcs, tool_call_id)
    /\ mem_op' = [name |-> "add_message",
                  raised |-> AddMessageRaises(role, tool_call_id),
                  role |-> role, content |-> content, tool_calls |-> tcs,
                  tool_call_id |-> tool_call_id]
    /\ v2' = [messages |-> v2_add_message(v2.messages, role, content, tcs,
                                          tool_call_id),
              raised |-> v2_AddMessageRaises(role, tool_call_id)]
    /\ NoStoresStep

\* reset() on both stores
StoresReset ==
    /\ mem_op.name # "reset"
    /\ memory' = reset(memory)
    /\ mem_op' = [NoOp EXCEPT !.name = "reset"]
    /\ v2' = [messages |-> v2_reset(v2.messages), raised |-> FALSE]
    /\ NoStoresStep

StoresNext ==
    \/ \E role \in CallerRoles, content \in CallerContents,
          tcs \in CallerToolCalls, id \in CallerIds :
             StoresAddMessage(role, content, tcs, id)
    \/ StoresReset

SpecStores == StoresInit /\ [][StoresNext]_vars

(***************************************************************************)
(* Properties.                                                             *)
(***************************************************************************)
\* the invoke that was started has ended
Ended == pc = "idle" /\ invokes = 1

ToolMessage(content, id) ==
    [role |-> "tool", content |-> content, tool_call_id |-> id,
     tool_calls |-> NoToolCalls]

ExecErrorTexts ==
    {"Erro ao executar a ferramenta: Result too large",
     "Erro ao executar a ferramenta: argument after ** must be a mapping, not list"}

\* C1: when every model response of an invoke carries tool calls (and no
\* model call or argument decoding fails), the invoke ends with the
\* recursion-limit error, and that error is raised after exactly
\* max_depth + 1 resolved batches: never after fewer, and no invoke
\* resolves more.
C1_RecursionLimitExact ==
    /\ outcome = Raised(RecursionLimitError) =>
          /\ cycles = max_depth + 1
          /\ requests = max_depth + 2
          /\ all_calls
    /\ (Ended /\ all_calls /\ ~backend_failed
           /\ last_call.kind \notin {"decode_error", "escaped"}) =>
          outcome = Raised(RecursionLimitError)
    /\ cycles <= max_depth + 1

C1_Witness ==
    /\ outcome = Raised(RecursionLimitError)
    /\ cycles = max_depth + 1
    /\ Len(memory) >= 3 + 2 * (max_depth + 1)

\* C2: an invoke that was started ends, with a value returned or an error
\* raised, whatever the model and the tools answer; it asks the backend at
\* most max_depth + 2 times and the one user message gives one outcome.
C2_InvokeTerminates ==
    /\ [](requests <= max_depth + 2)
    /\ [](Ended <=> outcome.kind \in {"returned", "raised"})
    /\ (pc # "idle") ~> Ended

C2_Witness ==
    /\ Ended
    /\ outcome.kind = "returned"
    /\ cycles >= 2
    /\ \E i \in 1..Len(memory) : memory[i].content \in ExecErrorTexts

\* C3: when the function of a registered tool raises, the step appends a
\* tool message with the error text and the id of the call and goes on
\* with the next call of the batch (or with the model call after the last
\* one); the invoke does not fail in that step, and no invoke ever fails
\* with the exception of a tool.
C3_ToolFailureIsolated ==
    /\ [](outcome.error.type \notin ExceptionClasses)
    /\ [][(pc = "call_tools_loop" /\ tool_runs' = tool_runs + 1
             /\ last_call'.kind \in {"raised", "escaped"}) =>
            /\ \E text \in ExecErrorTexts :
                  memory' = Append(memory,
                                   ToolMessage(text, tool_calls[idx].id))
            /\ outcome' = outcome
            /\ idx' = idx + 1
            /\ pc' = IF idx < Len(tool_calls) THEN "call_tools_loop"
                     ELSE "call_tools_completion"]_vars

C3_Witness ==
    /\ Ended
    /\ outcome.kind = "returned"
    /\ \E i \in 1..Len(memory) :
          /\ memory[i].role = "tool"
          /\ memory[i].content = "Erro ao executar a ferramenta: Result too large"
          /\ memory[i].tool_call_id = "call_1"

\* C4: a call whose serialized arguments cannot be decoded gets a tool
\* message with its id, and the invoke does not fail with the decode error.
C4_DecodeFailureCaught ==
    last_call.kind = "decode_error" =>
        /\ outcome.kind # "raised"
        /\ last_message(memory).role = "tool"
        /\ last_message(memory).tool_call_id = last_call.id

\* C5: a call that names a tool that is not in the registry gets a tool
\* message saying that the tool was not found, with the id of the call, the
\* loop goes on and the invoke does not fail in that step.
C5_UnknownToolReported ==
    [][(pc = "call_tools_loop"
          /\ ~Registered(tool_map, tool_calls[idx].function.name)) =>
         /\ memory' = Append(memory,
               ToolMessage(NotFoundText(tool_calls[idx].function.name),
                           tool_calls[idx].id))
         /\ outcome' = outcome
         /\ idx' = idx + 1]_vars

\* C6: whenever a backend request of an invoke failed, the invoke failed
\* with the model-call error (the RuntimeError built in _get_completion).
C6_SingleModelCallError ==
    backend_failed =>
        /\ outcome.kind = "raised"
        /\ outcome.error.type = "RuntimeError"
        /\ outcome.error.text = "Erro ao chamar o modelo"

\* C7: a step that calls the model issues exactly one backend request and
\* no other step issues one; the step in which a request fails appends
\* nothing, runs no tool and ends the invoke with an error, and afterwards
\* that invoke issues no request, runs no tool and appends nothing.
C7_NoRetry ==
    [][/\ requests' = IF pc \in {"invoke_completion", "call_tools_completion"}
                      THEN requests + 1
                      ELSE IF pc = "idle" THEN 0 ELSE requests
       /\ (backend_failed' /\ ~backend_failed) =>
             /\ memory' = memory
             /\ tool_runs' = tool_runs
             /\ pc' = "idle"
             /\ outcome'.kind = "raised"
       /\ backend_failed =>
             /\ requests' = requests
             /\ memory' = memory
             /\ tool_runs' = tool_runs
             /\ pc' = "idle"]_vars

C7_Witness ==
    /\ backend_failed
    /\ Ended
    /\ cycles >= 1
    /\ requests = cycles + 1
    /\ last_message(memory).role = "tool"

\* C8: while and after the loop of a batch runs, the log holds, after the
\* entries it had when the loop began, one tool message per handled call,
\* in the order of the calls, the i-th with the id of the i-th call.
C8_ToolMessagesInOrder ==
    pc \in {"call_tools_loop", "call_tools_completion"} =>
        /\ Len(memory) = batch_start + idx - 1
        /\ (pc = "call_tools_completion" => idx - 1 = Len(tool_calls))
        /\ \A i \in 1..(idx - 1) :
              /\ memory[batch_start + i].role = "tool"
              /\ memory[batch_start + i].tool_call_id = tool_calls[i].id

C8_Witness ==
    /\ pc = "call_tools_completion"
    /\ Len(tool_calls) = 2
    /\ memory[batch_start + 1].tool_call_id = "call_1"
    /\ memory[batch_start + 2].tool_call_id = "call_2"

\* C9: no backend request is issued while calls of the batch are left; the
\* request issued after a batch is sent with a transcript that ends with
\* the tool messages of all calls of the batch.
C9_ModelCalledAfterBatch ==
    [][(requests' = requests + 1 /\ requests >= 1) =>
         /\ pc = "call_tools_completion"
         /\ idx = Len(tool_calls) + 1
         /\ Len(request'.messages) = batch_start + Len(tool_calls)
         /\ \A i \in 1..Len(tool_calls) :
               /\ request'.messages[batch_start + i].role = "tool"
               /\ request'.messages[batch_start + i].tool_call_id
                     = tool_calls[i].id
               /\ request'.messages[batch_start + i] =
                     Projected(memory[batch_start + i])]_vars

C9_Witness ==
    /\ requests >= 2
    /\ Len(tool_calls) = 2
    /\ Len(request.messages) = batch_start + 2
    /\ request.messages[batch_start + 2].tool_call_id = "call_2"

\* C10: an invoke that returned had a last model response without tool
\* calls; the value returned is the content of that response, the empty
\* string when it has none, and that response is the last entry of the
\* log, with role assistant.
C10_ReturnsFinalContent ==
    outcome.kind = "returned" =>
        /\ ~Truthy(response.tool_calls)
        /\ outcome.value # None
        /\ outcome.value = IF response.content = None THEN ""
                           ELSE response.content
        /\ last_message(memory).role = "assistant"
        /\ last_message(memory).content = outcome.value

C10_Witness ==
    /\ outcome.kind = "returned"
    /\ response.content = None
    /\ outcome.value = ""
    /\ cycles >= 1

RECURSIVE Sum(_)
Sum(ns) == IF ns = << >> THEN 0 ELSE Head(ns) + Sum(Tail(ns))

\* the roles of one tool round of n calls: n tool messages, one assistant
RoundRoles(n) == [i \in 1..(n + 1) |-> IF i <= n THEN "tool" ELSE "assistant"]

RECURSIVE RoundsRoles(_)
RoundsRoles(ns) ==
    IF ns = << >> THEN << >> ELSE RoundRoles(Head(ns)) \o RoundsRoles(Tail(ns))

RolesOf(log) == [i \in 1..Len(log) |-> log[i].role]

\* C11: when an invoke has returned after k tool rounds of n_1..n_k calls,
\* the log holds the system message and then user, assistant and, for each
\* round, n_i tool messages followed by one assistant message: it grew by
\* exactly 2 + k + (n_1 + ... + n_k) entries
C11_TranscriptShape ==
    outcome.kind = "returned" =>
        /\ Len(batch_sizes) = cycles
        /\ Len(memory) = 1 + 2 + Len(batch_sizes) + Sum(batch_sizes)
        /\ RolesOf(memory) =
               <<"system", "user", "assistant">> \o RoundsRoles(batch_sizes)

C11_Witness ==
    /\ outcome.kind = "returned"
    /\ batch_sizes = <<1>>
    /\ RolesOf(memory) = <<"system", "user", "assistant", "tool", "assistant">>

\* C12: the assistant message appended for a model response has the
\* tool_calls of that response, after the first model call of an invoke
\* and after each model call that follows a tool batch
C12_AssistantCarriesToolCalls ==
    [][(requests' = requests + 1 /\ ~backend_failed') =>
          /\ last_message(memory').role = "assistant"
          /\ last_message(memory').tool_calls = response'.tool_calls]_vars

\* C13: every request to the model has the catalog of the agent's tools
\* when the agent has at least one tool and has no tools field when it has
\* none; an empty tools list is never sent
C13_ToolsAttached ==
    requests >= 1 =>
        /\ request.has_tools <=> (DOMAIN tool_map # {})
        /\ request.has_tools =>
               /\ request.tools # << >>
               /\ {request.tools[i].function.name :
                       i \in 1..Len(request.tools)} = DOMAIN tool_map
        /\ ~request.has_tools => request.tools = << >>

C13_Witness ==
    /\ requests >= 2
    /\ request.has_tools
    /\ cycles >= 1

\* C14: the messages of a request are the stored messages one for one, in
\* the same order and with the same role, content and tool_call_id; a
\* tool_calls that is not a dict is left out, and nothing else is
C14_ProjectionFaithful ==
    [][requests' = requests + 1 =>
          /\ Len(request'.messages) = Len(memory)
          /\ \A i \in 1..Len(memory) :
                /\ request'.messages[i].role = memory[i].role
                /\ request'.messages[i].content = memory[i].content
                /\ request'.messages[i].tool_call_id = memory[i].tool_call_id
                /\ request'.messages[i].tool_calls.kind # "list"
                /\ IsDict(memory[i].tool_calls) =>
                       request'.messages[i].tool_calls = memory[i].tool_calls
          ]_vars

C14_Witness ==
    /\ requests >= 2
    /\ Len(request.messages) >= 4
    /\ memory[3].tool_calls.kind = "list"
    /\ request.messages[3].tool_calls = NoToolCalls
    /\ request.messages[4].role = "tool"
    /\ request.messages[4].tool_call_id = memory[4].tool_call_id

\* C15: building the messages of a request leaves the log as it was: the
\* same messages in the same order, a list of tool calls that the request
\* left out still stored
C15_ProjectionPureRead ==
    [][requests' = requests + 1 =>
          /\ Len(memory') >= Len(memory)
          /\ \A i \in 1..Len(memory) : memory'[i] = memory[i]]_vars

C15_Witness ==
    /\ requests >= 2
    /\ Len(request.messages) >= 3
    /\ request.messages[3].tool_calls = NoToolCalls
    /\ memory[3].tool_calls.kind = "list"

\* the message m is the one a caller added with the arguments a
AddedAs(m, a) ==
    /\ m.role = a.role
    /\ m.content = a.content
    /\ m.tool_calls = a.tool_calls

\* C16: messages returns the messages of the accepted add_message calls in
\* the order of the calls and last_message returns the one added last; on
\* a store that is empty, new or reset, messages is empty and last_message
\* returns None
C16_InsertionOrder ==
    /\ mem_op.name = "messages" =>
          /\ Len(mem_ret.list) = Len(added)
          /\ \A i \in 1..Len(added) : AddedAs(mem_ret.list[i], added[i])
    /\ mem_op.name = "last_message" =>
          IF added = << >>
          THEN mem_ret.kind = "None"
          ELSE /\ mem_ret.kind = "message"
               /\ AddedAs(mem_ret.message, added[Len(added)])
    /\ mem_op.name = "reset" => added = << >> /\ memory = << >>

C16_Witness ==
    /\ mem_op.name = "last_message"
    /\ Len(added) = 3
    /\ added[1] # added[3]
    /\ added[2] # added[3]
    /\ AddedAs(mem_ret.message, added[3])

\* C17: add_message with role tool and no tool_call_id raises and leaves
\* the store as it was, whatever the store holds
C17_ToolWithoutIdRejected ==
    [][(/\ mem_op'.name = "add_message"
        /\ mem_op'.role = "tool"
        /\ mem_op'.tool_call_id = None) =>
           /\ mem_op'.raised
           /\ Len(memory') = Len(memory)
           /\ memory' = memory]_vars

C17_Witness ==
    /\ mem_op.name = "add_message"
    /\ mem_op.role = "tool"
    /\ mem_op.tool_call_id = None
    /\ mem_op.raised
    /\ Len(memory) >= 2

\* C18: add_message with a role that is not one of the four raises and
\* leaves the store as it was; every stored message has one of the four
\* roles
C18_InvalidRoleRejected ==
    /\ [][(mem_op'.name = "add_message" /\ mem_op'.role \notin Roles) =>
             mem_op'.raised /\ memory' = memory]_vars
    /\ [](\A i \in 1..Len(memory) : memory[i].role \in Roles)

C18_Witness ==
    /\ mem_op.name = "add_message"
    /\ mem_op.role = "admin"
    /\ mem_op.raised
    /\ Len(memory) >= 1

\* C19: when the caller appends to, removes from or replaces an element of
\* the list messages returned, the store keeps its length and its messages,
\* and messages and last_message return what they returned before
C19_MessagesIsCopy ==
    [][mem_op'.name \in ListChanges =>
          /\ Len(memory') = Len(memory)
          /\ memory' = memory
          /\ messages(memory') = messages(memory)
          /\ last_message(memory') = last_message(memory)]_vars

C19_Witness ==
    /\ mem_op.name \in ListChanges
    /\ Len(memory) >= 1
    /\ mem_ret.list # memory

\* C20: an accepted add_message puts one message at the end of the log and
\* leaves the messages before it in place; messages, last_message and a
\* rejected add_message leave the log as it is; the log gets shorter only
\* by reset
C20_AppendOnly ==
    [][/\ (mem_op'.name = "add_message" /\ ~mem_op'.raised) =>
             /\ Len(memory') = Len(memory) + 1
             /\ \A i \in 1..Len(memory) : memory'[i] = memory[i]
             /\ AddedAs(memory'[Len(memory')], mem_op')
       /\ (\/ mem_op'.name \in {"messages", "last_message"}
           \/ mem_op'.name = "add_message" /\ mem_op'.raised) =>
             memory' = memory
       /\ Len(memory') < Len(memory) => mem_op'.name = "reset"]_vars

C20_Witness ==
    /\ mem_op.name = "add_message"
    /\ ~mem_op.raised
    /\ Len(memory) = 3
    /\ memory[1] # memory[3]

\* C21: writing into a message obtained from messages or last_message
\* leaves every stored message as it was
C21_StoredMessagesImmutable ==
    [][mem_op'.name = "set_content" => memory' = memory]_vars

\* C22: a stored message has a tool_call_id exactly when its role is tool;
\* a tool_call_id given with another role is not stored
C22_ToolCallIdOnlyOnTool ==
    \A i \in 1..Len(memory) :
        (memory[i].tool_call_id # None) <=> (memory[i].role = "tool")

C22_Witness ==
    /\ mem_op.name = "add_message"
    /\ ~mem_op.raised
    /\ mem_op.role = "assistant"
    /\ mem_op.tool_call_id = "call_123"
    /\ memory[Len(memory)].tool_call_id = None
    /\ \E i \in 1..Len(memory) : memory[i].tool_call_id = "call_123"

\* C23: a stored message with a tool_calls field has the role assistant
C23_ToolCallsOnlyOnAssistant ==
    \A i \in 1..Len(memory) :
        memory[i].tool_calls # NoToolCalls => memory[i].role = "assistant"

\* C24: every message in the log of an agent has a content that is a
\* string, never None and never a value of another type
C24_ContentIsText ==
    \A i \in 1..Len(memory) :
        memory[i].content \notin NonText

C24_Witness ==
    /\ outcome.kind = "returned"
    /\ response.content = None
    /\ memory[Len(memory)].content = ""
    /\ \E i \in 1..Len(memory) :
          memory[i].role = "tool" /\ memory[i].content = "256.0"
    /\ \E i \in 1..Len(memory) :
          memory[i].role = "tool" /\ memory[i].content \in ExecErrorTexts

\* the docstring has a line that is not blank
Documented(doc) == \E i \in 1..Len(doc) : doc[i] \notin BlankLines

\* the first line of the docstring that is not blank, without its
\* indentation
FirstDocLine(doc) ==
    LStripLine(doc[CHOOSE i \in 1..Len(doc) :
                      /\ doc[i] \notin BlankLines
                      /\ \A j \in 1..(i - 1) : doc[j] \in BlankLines])

\* C25: building a Tool from a callable without documentation fails, and
\* every Tool that was built has a description that is not empty and is
\* the first line of the documentation of its callable
C25_DescriptionRequired ==
    /\ tool.state = "built" =>
          /\ tool.description # ""
          /\ Documented(func.doc)
          /\ tool.description = FirstDocLine(func.doc)
    /\ (tool.state # "none" /\ ~Documented(func.doc)) => tool.state = "raised"

IsNamed(param) == param.kind = "named"
IsRequired(param) == param.kind = "named" /\ ~param.has_default
NamesOf(params) == [i \in 1..Len(params) |-> params[i].name]

SchemaTypes ==
    [a \in Annotations \ {Empty} |->
        IF a = "str" THEN "string"
        ELSE IF a = "int" THEN "integer"
        ELSE IF a = "float" THEN "number"
        ELSE IF a = "bool" THEN "boolean"
        ELSE "string"]

\* C27: to_dict has one property per parameter of the Tool, under the
\* name of the parameter and with the type str -> string, int -> integer,
\* float -> number, bool -> boolean, any other -> string; required is the
\* parameters without a default, in the order of the signature
C27_ToDictSchema ==
    tool_ret.kind = "to_dict" =>
        /\ ~tool_ret.raises
        /\ NamesOf(tool_ret.properties) = NamesOf(tool.parameters)
        /\ \A i, j \in 1..Len(tool_ret.properties) :
              tool_ret.properties[i].name = tool_ret.properties[j].name
                  => i = j
        /\ \A i \in 1..Len(tool.parameters) :
              tool_ret.properties[i].type = SchemaTypes[tool.parameters[i].type]
        /\ tool_ret.required = NamesOf(SelectSeq(func.params, IsRequired))

C27_Witness ==
    /\ tool_ret.kind = "to_dict"
    /\ Len(tool_ret.properties) = 2
    /\ tool.parameters[1].type = "bool"
    /\ tool_ret.properties[1].type = "boolean"
    /\ tool.parameters[2].type = "list"
    /\ tool_ret.properties[2].type = "string"
    /\ tool_ret.required = <<"exponent">>

\* C28: when the function of a Tool raises, the call of the Tool raises a
\* ToolExecutionError
C28_FailureWrapped ==
    (tool_ret.kind = "call" /\ tool_ret.raises) =>
        tool_ret.type = "ToolExecutionError"

\* C29: no step of an invoke, of one that fails included, changes tool_map
\* or the list of tool specs built by the constructor
C29_RegistryReadOnly ==
    [][tool_map' = tool_map /\ openai_tools' = openai_tools]_vars

C29_Witness ==
    /\ Ended
    /\ outcome.kind = "raised"
    /\ DOMAIN tool_map = {"power"}
    /\ Len(openai_tools) = 1
    /\ \E i \in 1..Len(memory) : memory[i].content = NotFoundText("sqrt")

\* C30: an invoke of an EnhancedAgent with reflection on makes at least 1
\* and at most 3 reflection iterations, whatever max_iter and
\* max_reflections are
C30_ReflectionsBounded ==
    /\ enhanced.i <= 3
    /\ (enhanced.outcome = "returned" /\ enhanced.auto_reflection) =>
           enhanced.i >= 1

\* C32: one invoke resolves at most 6 batches and asks the model at most 7
\* times; the recursion-limit error comes with the 7th response in a row
\* that has tool calls, once that response is stored as the last assistant
\* message, and none of its tools is run and no tool message follows it
C32_LimitAtSeventhResponse ==
    /\ cycles <= 6
    /\ requests <= 7
    /\ Len(batch_sizes) <= 6
    /\ outcome = Raised(RecursionLimitError) =>
          /\ requests = 7
          /\ all_calls
          /\ Truthy(response.tool_calls)
          /\ Len(batch_sizes) = 6
          /\ cycles = 6
          /\ last_message(memory).role = "assistant"
          /\ last_message(memory).content = AssistantContent(response.content)
          /\ Len(memory) = 3 + 6 + Sum(batch_sizes)

C32_Witness ==
    /\ outcome = Raised(RecursionLimitError)
    /\ requests = 7
    /\ tool_runs = 6
    /\ last_message(memory).role = "assistant"

\* C33: an invoke of an EnhancedAgent gets the initial response before any
\* reflection; when it returns it has asked the model once with reflection
\* off and 1 + n times with reflection on and n iterations, its memory
\* holds the user message and then 1 + n assistant messages, and the value
\* it returns is the last response and the content of the last message
C33_InitialThenReflections ==
    /\ enhanced.i >= 1 => enhanced.model_calls >= 2 /\ enhanced.auto_reflection
    /\ enhanced.pc = "reflect" => Len(enhanced.messages) >= 2
    /\ enhanced.outcome = "returned" =>
          /\ enhanced.model_calls = 1 + enhanced.i
          /\ ~enhanced.auto_reflection => enhanced.i = 0
          /\ enhanced.auto_reflection =>
                enhanced.i = IF enhanced.max_reflections > 0
                             THEN enhanced.max_reflections ELSE 0
          /\ RolesOf(enhanced.messages) =
                <<"user">> \o [k \in 1..(1 + enhanced.i) |-> "assistant"]
          /\ enhanced.response =
                enhanced.messages[Len(enhanced.messages)].content

C33_Witness ==
    /\ enhanced.outcome = "returned"
    /\ enhanced.auto_reflection
    /\ enhanced.i = 2
    /\ enhanced.model_calls = 3
    /\ Len(enhanced.messages) = 4
    /\ enhanced.messages[3].content # enhanced.messages[4].content

\* C34: in the messages of every request, a tool message comes after an
\* assistant message, with tool messages only in between, and the
\* tool_calls of that assistant message has a call with the id of the tool
\* message
C34_ToolResultsMatchRequests ==
    \A i \in 1..Len(request.messages) :
        request.messages[i].role = "tool" =>
            \E j \in 1..(i - 1) :
                /\ request.messages[j].role = "assistant"
                /\ \A k \in (j + 1)..(i - 1) : request.messages[k].role = "tool"
                /\ \E c \in 1..Len(request.messages[j].tool_calls.calls) :
                      request.messages[j].tool_calls.calls[c].id =
                          request.messages[i].tool_call_id

\* C35: the step at which an invoke fails removes nothing from the log and
\* appends nothing for what failed: a failed model call, an error of
\* json.loads and an exception that escapes a tool leave the log as it is,
\* and the recursion-limit error leaves it as it is once the response that
\* exceeds the limit is stored; the log of a failed invoke begins with the
\* system message and the user message
C35_FailureKeepsTranscript ==
    /\ [][(outcome.kind # "raised" /\ outcome'.kind = "raised") =>
             /\ \A i \in 1..Len(memory) :
                   i <= Len(memory') /\ memory'[i] = memory[i]
             /\ IF outcome' = Raised(RecursionLimitError)
                THEN /\ Len(memory') = Len(memory) + 1
                     /\ last_message(memory').role = "assistant"
                     /\ last_message(memory').content =
                            AssistantContent(response'.content)
                ELSE memory' = memory]_vars
    /\ [](outcome.kind = "raised" =>
             /\ Len(memory) >= 2
             /\ memory[1].role = "system"
             /\ memory[1].content = SystemContent
             /\ memory[2].role = "user"
             /\ memory[2].content \in UserMessages)

C35_Witness ==
    /\ outcome.kind = "raised"
    /\ last_call.kind = "escaped" \/ last_call.kind = "decode_error"
    /\ Len(memory) >= 5
    /\ last_message(memory).role = "tool"

\* number of tool messages in the log
ToolMessages(log) == Cardinality({i \in 1..Len(log) : log[i].role = "tool"})

\* C36: the recursion depth is counted per invoke.  In every invoke of a
\* session the depth of the frame whose loop is running equals the number
\* of batches that this invoke has finished, whatever the earlier invokes
\* did; the recursion limit is reported only by an invoke that has itself
\* resolved max_depth + 1 batches, and no invoke resolves more.
C36_DepthPerInvoke ==
    /\ pc = "call_tools_loop" => recursion_depth = cycles
    /\ pc = "call_tools_completion" => recursion_depth + 1 = cycles
    /\ cycles <= max_depth + 1
    /\ outcome = Raised(RecursionLimitError) => cycles = max_depth + 1

\* a second invoke resolved max_depth + 1 batches after the first one had
\* already done so and failed at the limit
C36_Witness ==
    /\ invokes = 2
    /\ pc = "idle"
    /\ outcome = Raised(RecursionLimitError)
    /\ cycles = max_depth + 1
    /\ ToolMessages(memory) = 2 * (max_depth + 1)

\* C38: in every model call of the agent, the first message of the
\* projection is the system message seeded at construction, also after
\* memory.reset() and a new invoke.  Memory.reset empties the log, seed
\* included, and invoke does not seed it again: the projection of the next
\* invoke begins with the user message.
C38_ProjectionStartsWithSystem ==
    requests > 0 =>
        /\ Len(request.messages) > 0
        /\ request.messages[1].role = "system"
        /\ request.messages[1].content = SystemContent

\* C39: the catalog sent to the model and the dispatch registry agree: the
\* catalog has exactly one schema per registry entry, and the schema at
\* each position of the catalog is the one of the tool that a call of its
\* name is dispatched to.  An agent built from two tools of one name
\* advertises both schemas while its registry keeps the last tool only.
C39_CatalogMatchesRegistry ==
    /\ Len(openai_tools) = Cardinality(DOMAIN tool_map)
    /\ \A i \in 1..Len(openai_tools) :
          /\ Registered(tool_map, openai_tools[i].function.name)
          /\ tool_map[openai_tools[i].function.name] = i

\* C31: a successful AgentWithMemory.invoke calls the model once, with the
\* whole history: what the store held when invoke was entered (the system
\* message first) followed by the new user message.  The reply is appended
\* as an assistant message and is the value returned; the store has grown
\* by exactly two messages.
C31_InvokeAddsExchange ==
    [][(/\ chat.agent = "AgentWithMemory"
        /\ chat.pc = "create"
        /\ chat'.outcome.kind = "returned") =>
            /\ chat'.model_calls = 1
            /\ Len(chat'.request) = Len(chat.entry) + 1
            /\ SubSeq(chat'.request, 1, Len(chat.entry)) = chat.entry
            /\ chat'.request[1] =
                  [role |-> "system", content |-> WithMemorySystemContent]
            /\ chat'.request[Len(chat'.request)].role = "user"
            /\ chat'.request[Len(chat'.request)].content \in UserMessages
            /\ chat'.messages =
                  Append(chat'.request,
                         [role |-> "assistant",
                          content |-> chat'.outcome.value])
            /\ Len(chat'.messages) = Len(chat.entry) + 2]_vars

\* the second invoke of an AgentWithMemory has returned
C31_Witness ==
    /\ chat.agent = "AgentWithMemory"
    /\ chat.pc = "idle"
    /\ chat.invokes = 2
    /\ chat.outcome.kind = "returned"
    /\ Len(chat.messages) = 5

\* the stored history after the leading system message, if there is one
AfterSystem(log) ==
    IF Len(log) > 0 /\ log[1].role = "system" THEN Tail(log) ELSE log

\* C37: whenever no invoke of an AgentWithMemory or AgentAI is running, the
\* history after the optional system message alternates user, assistant and
\* ends with an assistant message.  An invoke whose model call raises leaves
\* its user message in the store without a reply.
C37_HistoryAlternates ==
    chat.pc = "idle" =>
        LET h == AfterSystem(chat.messages)
        IN  /\ \A i \in 1..Len(h) :
                  h[i].role = IF i % 2 = 1 THEN "user" ELSE "assistant"
            /\ Len(h) % 2 = 0

\* C40: memory.Memory and memory_v2.Memory are interchangeable: given the
\* same calls of add_message and reset, both raise on the same calls and
\* hold equal logs, so that messages and get_messages, and last_message of
\* both, return equal results.  memory_v2 does not test the role and does
\* not store the tool_calls of a tool message.
C40_StoresInterchangeable ==
    /\ mem_op.raised = v2.raised
    /\ memory = v2.messages
    /\ messages(memory) = v2_get_messages(v2.messages)
    /\ last_message(memory) = v2_last_message(v2.messages)


====
